---- MODULE Spec2Model ----
(***************************************************************************)
(* A model of cellpose/dynamics.py: the flow encoders (masks_to_flows),    *)
(* the training-target builders (labels_to_flows, labels_to_flows2), the   *)
(* particle advection (follow_flows, steps2D, steps3D), the instance       *)
(* extraction (get_masks, remove_bad_flow_masks) and fill_holes.           *)
(*                                                                         *)
(* Arrays are functions from index tuples to values.  An index tuple is a  *)
(* TLA+ tuple of length 2 (Y,X) or 3 (Z,Y,X), 0-based like the code.       *)
(* Real-valued positions and flows are fixed-point integers in units of    *)
(* 1/unit: 1/PosScale in the calls of follow_flows and get_masks alone,    *)
(* 1/NormScale where the flows come out of masks_to_flows.                 *)
(***************************************************************************)
EXTENDS Integers, Sequences, FiniteSets, TLC

VARIABLES
    pc,       \* position of the running function
    shape0,   \* get_masks: p.shape[1:]
    pIn,      \* get_masks: the values of the caller's array p at the call
    p,        \* get_masks / steps: the array p (the caller's object)
    iscell,   \* get_masks: argument iscell ("None" or a boolean array)
    rpad,     \* get_masks: argument rpad
    pflows,   \* get_masks: truncated positions, one tuple per pixel
    h,        \* get_masks: histogram over the padded bins
    hmax,     \* get_masks: maximum-filtered histogram
    seeds,    \* get_masks: list of seed bins
    pix,      \* get_masks: list of footprints, one per seed
    iter,     \* get_masks: round of the region-growth loop
    M,        \* get_masks: label array over the padded bins
    M0,       \* get_masks: label map over the grid
    hist,     \* get_masks: label maps recorded at the steps of lines 546-564
    fshape,   \* follow_flows: dP.shape[1:]
    dP,       \* follow_flows / steps: the flow field, one vector per pixel
    niter,    \* follow_flows / steps: number of iterations
    inds,     \* steps: list of the pixels that are advected
    tt,       \* steps: iteration t
    jj,       \* steps: position j in inds of the next particle
    moved,    \* steps: the last particle update, before and after the clamp
    labels,   \* labels_to_flows, labels_to_flows2: the argument, a list of arrays
    built,    \* labels_to_flows, labels_to_flows2: the outcome of the call
    masks,    \* fill_holes: the array masks (the caller's object)
    masksIn,  \* fill_holes: the values of masks at the call
    min_size, \* fill_holes: argument min_size
    slices,   \* fill_holes: the bounding boxes found by find_objects
    fi,       \* fill_holes: the loop counter i
    emasks,   \* masks_to_flows: the argument masks of the outer call
    eaxis,    \* masks_to_flows: 0 in a 2D call, else the axis of the slice loop
    sl,       \* masks_to_flows: the loop counter z, y or x
    cur,      \* masks_to_flows: the argument masks of the 2D call
    objs,     \* masks_to_flows: slices of the 2D call
    ei,       \* masks_to_flows: the loop counter i of the 2D call
    T,        \* masks_to_flows: the array T
    et,       \* _extend_centers: the loop counter t
    mu2,      \* masks_to_flows: mu of the 2D call before line 178
    mu,       \* masks_to_flows: mu of the outer call
    grad,     \* masks_to_flows: the returned field before its normalisation
    enc,      \* encoders: 1 in masks_to_flows, 2 in masks_to_flows2
    ref,      \* encoders: the un-normalised field of the run in the order of the code
    prog,     \* encoders: per instance, 0 before, 1 inside and 2 after its loop body
    Ts,       \* masks_to_flows: per instance, its array T
    ets,      \* _extend_centers: per instance, its loop counter t
    wrote,    \* encoders: per instance, the entries of mu its assignment addressed
    pStart,   \* steps: the array p at the start of the iteration t
    phase,    \* steps: per particle, how far its update of iteration t has got
    lookup,   \* steps: per particle, the indices p0, p1(, p2) it has read
    unit      \* positions and the flows they follow are in units of 1/unit

mvars == <<shape0, pIn, iscell, rpad, pflows, h, hmax, seeds, pix, iter, M, M0, hist>>
avars == <<fshape, dP, niter, inds, tt, jj, moved>>
lvars == <<labels, built>>
fvars == <<masks, masksIn, min_size, slices, fi>>
evars == <<emasks, eaxis, sl, cur, objs, ei, T, et, mu2, mu, grad>>
ovars == <<pStart, phase, lookup>>
wvars == <<enc, ref, prog, Ts, ets, wrote>>
vars == <<pc, p, unit, mvars, avars, lvars, fvars, evars, ovars, wvars>>

\* the variables of the other functions, which a function leaves alone
notM == <<unit, avars, lvars, fvars, evars, ovars, wvars>>
notA == <<unit, mvars, lvars, fvars, evars, ovars, wvars>>
notL == <<unit, p, mvars, avars, fvars, evars, ovars, wvars>>
notF == <<unit, p, mvars, avars, lvars, evars, ovars, wvars>>
notE == <<unit, p, mvars, avars, lvars, fvars, ovars, wvars>>
notO == <<unit, mvars, lvars, fvars, evars, wvars>>
notW == <<unit, p, mvars, avars, lvars, fvars, ovars>>

(***************************************************************************)
(* Bounds of the model.                                                    *)
(***************************************************************************)
Ly2 == 4            \* 2D grid: rows
Lx2 == 8            \* 2D grid: columns
Lz3 == 2            \* 3D grid: planes
Ly3 == 3            \* 3D grid: rows
Lx3 == 4            \* 3D grid: columns
MaxRpad == 1        \* rpad ranges over 0..MaxRpad
MaxNonCell == 1     \* iscell masks mark the first 0..MaxNonCell pixels as non-cell
PosScale == 2       \* positions and flows are multiples of 1/PosScale
AdvLy == 2          \* advection, 2D grid: rows
AdvLx == 2          \* advection, 2D grid: columns
AdvLz3 == 2         \* advection, 3D grid: planes
AdvLy3 == 1         \* advection, 3D grid: rows
AdvLx3 == 2         \* advection, 3D grid: columns
MaxFlow == 3        \* flow components are at most MaxFlow/PosScale in magnitude
MaxIter == 2        \* niter ranges over 0..MaxIter
MaxActive == 2      \* interleaved advection: at most MaxActive active pixels
MaxImg == 2         \* a batch of labels holds 1..MaxImg arrays
MaxChan == 5        \* a multi-channel array holds 1..MaxChan channels
MaxVal == 2         \* pixel values of the label arrays range over 0..MaxVal
FillLy == 3         \* fill_holes, grid: rows
FillLx == 3         \* fill_holes, grid: columns
FillLabels == 2     \* fill_holes, labels of the input range over 0..FillLabels
MidMinSize == 4     \* a min_size between 1 and the default
EncLy == 2          \* masks_to_flows, 2D label map: rows
EncLx == 3          \* masks_to_flows, 2D label map: columns
EncLabels == 2      \* masks_to_flows, 2D labels range over 0..EncLabels
EncLz3 == 2         \* masks_to_flows, 3D label map: planes
EncLy3 == 2         \* masks_to_flows, 3D label map: rows
EncLx3 == 2         \* masks_to_flows, 3D label map: columns
EncLabels3 == 1     \* masks_to_flows, 3D labels range over 0..EncLabels3
FlowScale == 10000  \* T and its gradient are in units of 1/FlowScale
NormScale == 1000   \* normalised flows are in units of 1/NormScale

Unused == <<>>

\* the variables of a function that is not running
IdleM ==
    /\ shape0 = Unused /\ pIn = Unused /\ iscell = Unused /\ rpad = 0
    /\ pflows = Unused /\ h = Unused /\ hmax = Unused /\ seeds = <<>>
    /\ pix = <<>> /\ iter = 0 /\ M = Unused /\ M0 = Unused /\ hist = Unused
IdleA ==
    /\ fshape = Unused /\ dP = Unused /\ niter = 0 /\ inds = <<>>
    /\ tt = 0 /\ jj = 0 /\ moved = Unused
IdleL == labels = <<>> /\ built = Unused
IdleF ==
    /\ masks = Unused /\ masksIn = Unused /\ min_size = 0
    /\ slices = <<>> /\ fi = 0
IdleW ==
    /\ enc = 0 /\ ref = Unused /\ prog = <<>> /\ Ts = <<>> /\ ets = <<>>
    /\ wrote = <<>>

IdleO == pStart = Unused /\ phase = <<>> /\ lookup = <<>>

IdleE ==
    /\ emasks = Unused /\ eaxis = 0 /\ sl = 0 /\ cur = Unused /\ objs = <<>>
    /\ ei = 0 /\ T = <<>> /\ et = 0 /\ mu2 = Unused /\ mu = Unused
    /\ grad = Unused

(***************************************************************************)
(* Index tuples.                                                           *)
(***************************************************************************)
\* the function f on 1..2 or 1..3 as an index tuple
Tup(f) == IF Len(f) = 2 THEN <<f[1], f[2]>> ELSE <<f[1], f[2], f[3]>>

Box(lo, hi) ==
    IF Len(lo) = 2
    THEN {<<a, b>> : a \in lo[1]..hi[1], b \in lo[2]..hi[2]}
    ELSE {<<a, b, c>> : a \in lo[1]..hi[1], b \in lo[2]..hi[2], c \in lo[3]..hi[3]}

\* all index tuples of an array of the given shape
Indices(shape) ==
    Box(Tup([i \in 1..Len(shape) |-> 0]), Tup([i \in 1..Len(shape) |-> shape[i] - 1]))

\* position of an index tuple in the flattened (C-order) array
Flat(shape, t) ==
    IF Len(shape) = 2 THEN t[1] * shape[2] + t[2]
    ELSE (t[1] * shape[2] + t[2]) * shape[3] + t[3]

Abs(v) == IF v < 0 THEN -v ELSE v

SetMax(S) == CHOOSE v \in S : \A w \in S : w <= v
SetMin(S) == CHOOSE v \in S : \A w \in S : v <= w

\* the elements of S as a sequence in C-order (the order of np.nonzero)
RECURSIVE InFlatOrder(_, _)
InFlatOrder(shape, S) ==
    IF S = {} THEN <<>>
    ELSE LET first == CHOOSE t \in S : \A u \in S : Flat(shape, t) <= Flat(shape, u)
         IN  <<first>> \o InFlatOrder(shape, S \ {first})

\* int(v), astype('int32'): truncation toward zero
Trunc(v) == IF v >= 0 THEN v \div unit ELSE -((-v) \div unit)

\* a NumPy index c into an axis of length n: valid iff -n <= c < n,
\* a negative one counts from the end
ValidIndex(c, n) == -n <= c /\ c < n
Wrap(c, n) == IF c < 0 THEN c + n ELSE c

(***************************************************************************)
(* get_masks (lines 418-566) and remove_bad_flow_masks (lines 384-416).    *)
(***************************************************************************)
SeedCount == 10     \* a seed bin holds more than 10 particles
GrowCount == 2      \* a footprint bin holds more than 2 particles
FilterSize == 5     \* window of the maximum filter
Rounds == 5         \* rounds of region growth
BigPercent == 35    \* big = 0.35 * shape0[0] * shape0[1]

\* np.meshgrid(..., indexing='ij'): inds[i][x] = x[i], stored into the float array p
Meshgrid(x) == Tup([i \in 1..Len(x) |-> x[i] * unit])

\* lines 463-471: p[i, ~iscell] = inds[i][~iscell], an assignment into the array p
ResetNonCells(pp, ic) ==
    IF ic.none THEN pp
    ELSE [x \in DOMAIN pp |-> IF ic.a[x] THEN pp[x] ELSE Meshgrid(x)]

\* line 474: pflows[i] = p[i].flatten().astype('int32')
Pflows(pp) == [x \in DOMAIN pp |-> Tup([i \in 1..Len(x) |-> Trunc(pp[x][i])])]

\* line 475: the edges -.5-rpad, ..., shape0[i]+.5+rpad-1 bound shape0[i]+2*rpad bins
HShape(s0, r) == Tup([i \in 1..Len(s0) |-> s0[i] + 2 * r])

\* line 478: the value v falls into bin v + rpad
Histogramdd(pf, s0, r) ==
    [b \in Indices(HShape(s0, r)) |->
        Cardinality({x \in DOMAIN pf : \A i \in 1..Len(s0) : pf[x][i] + r = b[i]})]

\* scipy's boundary mode 'reflect' (d c b a | a b c d | d c b a)
Reflect(j, n) == LET m == j % (2 * n) IN IF m < n THEN m ELSE 2 * n - 1 - m

\* line 481: maximum_filter1d(f, 5, axis)
MaximumFilter1d(f, shape, axis) ==
    [b \in DOMAIN f |->
        SetMax({f[[b EXCEPT ![axis] = Reflect(b[axis] + d, shape[axis])]] :
                    d \in -(FilterSize \div 2)..(FilterSize \div 2)})]

\* lines 479-481: the filter applied along every axis in turn
RECURSIVE HmaxAxes(_, _, _)
HmaxAxes(f, shape, k) ==
    IF k = 0 THEN f
    ELSE MaximumFilter1d(HmaxAxes(f, shape, k - 1), shape, k)

\* line 483: np.nonzero(np.logical_and(h-hmax>-1e-6, h>10)), in C-order.
\* Lines 484-487 compute isort and rebind the loop variable s only: the
\* arrays of seeds keep the order of np.nonzero.
Seeds(hh, hm, shape) ==
    InFlatOrder(shape, {b \in DOMAIN hh : hh[b] - hm[b] >= 0 /\ hh[b] > SeedCount})

\* lines 492-495: np.nonzero(np.ones((3,3))) or np.nonzero(np.ones((3,3,3)))
Expand(dims) ==
    Box(Tup([i \in 1..dims |-> 0]), Tup([i \in 1..dims |-> 2]))

\* lines 509-515: newpix, every bin of the footprint shifted by every offset - 1
Newpix(S, dims) ==
    {Tup([i \in 1..dims |-> t[i] + e[i] - 1]) : t \in S, e \in Expand(dims)}

\* lines 514, 517: iin, true of the coordinates inside the histogram. Lines
\* 521-522 rebind the loop variable p to p[iin]: newpix itself is not filtered.
Iin(c, shape) == \A i \in 1..Len(shape) : c[i] >= 0 /\ c[i] < shape[i]

\* line 526: h[newpix] raises IndexError on a coordinate outside -n..n-1
IndexError(S, shape) ==
    \E c \in S : \E i \in 1..Len(shape) : ~ValidIndex(c[i], shape[i])

WrapT(c, shape) == Tup([i \in 1..Len(shape) |-> Wrap(c[i], shape[i])])

\* lines 526-529: igood = h[newpix]>2 ; pix[k][i] = newpix[i][igood]
Igood(S, hh, shape) == {c \in S : hh[WrapT(c, shape)] > GrowCount}

\* lines 534-537: M[pix[k]] = 1+k for k in order, a later k overwrites
Rasterize(px, shape) ==
    [b \in Indices(shape) |->
        LET ks == {k \in 1..Len(px) : \E c \in px[k] : WrapT(c, shape) = b}
        IN  IF ks = {} THEN 0 ELSE SetMax(ks)]

Range(f) == {f[x] : x \in DOMAIN f}

\* np.unique: the distinct values in ascending order
RECURSIVE Ascending(_)
Ascending(S) ==
    IF S = {} THEN <<>> ELSE <<SetMin(S)>> \o Ascending(S \ {SetMin(S)})

\* line 547: _,counts = np.unique(M0, return_counts=True)
Counts(m) ==
    LET u == Ascending(Range(m))
    IN  [j \in 1..Len(u) |-> Cardinality({x \in DOMAIN m : m[x] = u[j]})]

\* line 550-551: the 0-based positions i in counts with counts[i] > big
BigIndices(m, s0) ==
    LET counts == Counts(m)
    IN  {j - 1 : j \in {k \in DOMAIN counts :
                          counts[k] * 100 > BigPercent * s0[1] * s0[2]}}

\* lines 551-552: M0[M0==i] = 0 for every such position i
Prune(m, s0) ==
    LET big == BigIndices(m, s0)
    IN  [x \in DOMAIN m |-> IF m[x] \in big THEN 0 ELSE m[x]]

\* a renumbering that leaves every label as it is
RenumberKeep(m) == m

\* lines 555-556, 563-564: _,M0 = np.unique(M0, return_inverse=True): every
\* value is replaced by its 0-based position among the distinct values
Renumber(m) ==
    LET u == Range(m)
    IN  [x \in DOMAIN m |-> Cardinality({v \in u : v < m[x]})]

\* metrics.flow_error returns one error per label 1..masks.max(); badi (line
\* 414) is the set of labels whose error exceeds the threshold
FlowErrorBad(m) == SUBSET (1..SetMax(Range(m) \cup {0}))

\* lines 413-416: masks[np.isin(masks, badi)] = 0
RemoveBadFlowMasks(m, badi) ==
    [x \in DOMAIN m |-> IF m[x] \in badi THEN 0 ELSE m[x]]

(***************************************************************************)
(* The inputs of get_masks.  Final positions: the first c1 pixels (in      *)
(* C-order) have converged to the sink s1, the next c2 pixels to the sink  *)
(* s2, every other pixel has stayed at its own coordinate.  A sink lies    *)
(* half a pixel inside its cell, except in the last cell of an axis (the   *)
(* advection clamps positions to extent-1).                                *)
(***************************************************************************)
Shapes == {<<Ly2, Lx2>>, <<Lz3, Ly3, Lx3>>}

NPixels(s0) == Cardinality(Indices(s0))

\* the second sink: a corner cell, or the cell next to one along the last axis
SinkCells(s0) ==
    {t \in Indices(s0) : \A i \in 1..Len(s0) :
        t[i] \in {0, s0[i] - 1} \/ (i = Len(s0) /\ t[i] = 1)}
\* the first sink: the first cell, or the cell next to it along the first axis
FirstSinkCells(s0) ==
    {t \in Indices(s0) : t[1] \in {0, 1} /\ \A i \in 2..Len(s0) : t[i] = 0}

SinkPos(s0, s) ==
    Tup([i \in 1..Len(s0) |-> s[i] * PosScale + (IF s[i] < s0[i] - 1 THEN 1 ELSE 0)])

\* sizes of the two groups: none, enough for a footprint bin, enough for a
\* seed, one more, or all the pixels the other group leaves
GroupSizes(s0) ==
    LET A == {0, SeedCount + 1, SeedCount + 2}
        B == {0, GrowCount + 1, SeedCount + 1, SeedCount + 2}
        N == NPixels(s0)
    IN  {c \in A \X B : c[1] + c[2] <= N}
        \cup {<<a, N - a>> : a \in A} \cup {<<N - b, b>> : b \in B}

FinalPositions(s0, s1, s2, c) ==
    [x \in Indices(s0) |->
        IF Flat(s0, x) < c[1] THEN SinkPos(s0, s1)
        ELSE IF Flat(s0, x) < c[1] + c[2] THEN SinkPos(s0, s2)
        ELSE Meshgrid(x)]

\* iscell: None, or an array that is False on the first m pixels
IscellChoices(s0) ==
    {[none |-> TRUE, a |-> <<>>]} \cup
    {[none |-> FALSE, a |-> [x \in Indices(s0) |-> Flat(s0, x) >= m]] : m \in 1..MaxNonCell}

\* rpad: a small padding in a direct call, the default after an advection
DefaultRpad == 20
Rpads == IF dP = Unused THEN 0..MaxRpad ELSE {DefaultRpad}

NoHist == [raw |-> <<>>, pruned |-> <<>>, renum |-> <<>>, filtered |-> <<>>]

InitMasks ==
    /\ pc = "get_masks"
    /\ unit = PosScale
    /\ shape0 \in Shapes
    /\ \E s1 \in FirstSinkCells(shape0), s2 \in SinkCells(shape0), c \in GroupSizes(shape0) :
          p = FinalPositions(shape0, s1, s2, c)
    /\ pIn = p
    /\ iscell = Unused /\ rpad = 0 /\ pflows = Unused /\ h = Unused /\ hmax = Unused
    /\ seeds = <<>> /\ pix = <<>> /\ iter = 0 /\ M = Unused /\ M0 = Unused /\ hist = NoHist
    /\ IdleA /\ IdleL /\ IdleF /\ IdleE /\ IdleO /\ IdleW

\* lines 459-471
GM_ResetNonCells ==
    /\ pc = "get_masks"
    /\ \E ic \in IscellChoices(shape0) :
          /\ iscell' = ic
          /\ p' = ResetNonCells(p, ic)
    /\ pc' = "histogram"
    /\ UNCHANGED <<shape0, pIn, rpad, pflows, h, hmax, seeds, pix, iter, M, M0, hist, notM>>

\* lines 473-478
GM_Histogram ==
    /\ pc = "histogram"
    /\ \E r \in Rpads :
          /\ rpad' = r
          /\ pflows' = Pflows(p)
          /\ h' = Histogramdd(Pflows(p), shape0, r)
    /\ pc' = "maxfilter"
    /\ UNCHANGED <<shape0, pIn, p, iscell, hmax, seeds, pix, iter, M, M0, hist, notM>>

\* lines 479-481
GM_MaximumFilter ==
    /\ pc = "maxfilter"
    /\ hmax' = HmaxAxes(h, HShape(shape0, rpad), Len(shape0))
    /\ pc' = "seeds"
    /\ UNCHANGED <<shape0, pIn, p, iscell, rpad, pflows, h, seeds, pix, iter, M, M0, hist, notM>>

\* lines 483-498
GM_Seeds ==
    /\ pc = "seeds"
    /\ seeds' = Seeds(h, hmax, HShape(shape0, rpad))
    /\ pix' = [k \in 1..Len(seeds') |-> {seeds'[k]}]
    /\ iter' = 0
    /\ pc' = "grow"
    /\ UNCHANGED <<shape0, pIn, p, iscell, rpad, pflows, h, hmax, M, M0, hist, notM>>

\* lines 501-532, one round of the loop over iter
GM_Grow ==
    /\ pc = "grow"
    /\ LET shape == HShape(shape0, rpad)
       IN  IF \E k \in 1..Len(pix) : IndexError(Newpix(pix[k], Len(shape0)), shape)
           THEN /\ pc' = "IndexError"
                /\ UNCHANGED <<pix, iter>>
           ELSE /\ pix' = [k \in 1..Len(pix) |->
                              Igood(Newpix(pix[k], Len(shape0)), h, shape)]
                /\ iter' = iter + 1
                /\ pc' = IF iter + 1 < Rounds THEN "grow" ELSE "rasterize"
    /\ UNCHANGED <<shape0, pIn, p, iscell, rpad, pflows, h, hmax, seeds, M, M0, hist, notM>>

\* lines 534-537
GM_Rasterize ==
    /\ pc = "rasterize"
    /\ M' = Rasterize(pix, HShape(shape0, rpad))
    /\ pc' = "lookup"
    /\ UNCHANGED <<shape0, pIn, p, iscell, rpad, pflows, h, hmax, seeds, pix, iter, M0, hist, notM>>

\* lines 540-547
GM_Lookup ==
    /\ pc = "lookup"
    /\ pflows' = [x \in DOMAIN pflows |->
                    Tup([i \in 1..Len(shape0) |-> pflows[x][i] + rpad])]
    /\ M0' = [x \in DOMAIN pflows |->
                    M[Tup([i \in 1..Len(shape0) |-> pflows[x][i] + rpad])]]
    /\ hist' = [hist EXCEPT !.raw = M0']
    /\ pc' = "prune"
    /\ UNCHANGED <<shape0, pIn, p, iscell, rpad, h, hmax, seeds, pix, iter, M, notM>>

\* lines 550-552
GM_Prune ==
    /\ pc = "prune"
    /\ M0' = Prune(M0, shape0)
    /\ hist' = [hist EXCEPT !.pruned = M0']
    /\ pc' = "renumber"
    /\ UNCHANGED <<shape0, pIn, p, iscell, rpad, pflows, h, hmax, seeds, pix, iter, M, notM>>

\* lines 555-556
GM_Renumber ==
    /\ pc = "renumber"
    /\ M0' = Renumber(M0)
    /\ hist' = [hist EXCEPT !.renum = M0']
    /\ pc' = "filter"
    /\ UNCHANGED <<shape0, pIn, p, iscell, rpad, pflows, h, hmax, seeds, pix, iter, M, notM>>

\* lines 561-562: threshold > 0 and flows given, the labels badi have a large error
GM_RemoveBadFlowMasks ==
    /\ pc = "filter"
    /\ \E badi \in FlowErrorBad(M0) : M0' = RemoveBadFlowMasks(M0, badi)
    /\ hist' = [hist EXCEPT !.filtered = M0']
    /\ pc' = "renumber2"
    /\ UNCHANGED <<shape0, pIn, p, iscell, rpad, pflows, h, hmax, seeds, pix, iter, M, notM>>

\* lines 563-564
GM_RenumberFiltered ==
    /\ pc = "renumber2"
    /\ M0' = Renumber(M0)
    /\ pc' = "done"
    /\ UNCHANGED <<shape0, pIn, p, iscell, rpad, pflows, h, hmax, seeds, pix, iter, M, hist, notM>>

\* lines 561, 566: no threshold or no flows, M0 is returned as it is
GM_Return ==
    /\ pc = "filter"
    /\ pc' = "done"
    /\ UNCHANGED <<shape0, pIn, p, iscell, rpad, pflows, h, hmax, seeds, pix, iter, M, M0, hist, notM>>

NextMasks ==
    \/ GM_ResetNonCells
    \/ GM_Histogram
    \/ GM_MaximumFilter
    \/ GM_Seeds
    \/ GM_Grow
    \/ GM_Rasterize
    \/ GM_Lookup
    \/ GM_Prune
    \/ GM_Renumber
    \/ GM_RemoveBadFlowMasks
    \/ GM_RenumberFiltered
    \/ GM_Return

SpecMasks == InitMasks /\ [][NextMasks]_vars

(***************************************************************************)
(* Properties of get_masks.                                                *)
(***************************************************************************)
Returned == pc = "done"
Renumbered == pc \in {"filter", "renumber2", "done"}
Filtered == hist.filtered # <<>>

PixelCount(m, k) == Cardinality({x \in DOMAIN m : m[x] = k})
Contiguous(m) == Range(m) = 0..SetMax(Range(m))

\* C1: the labels of the label map renumbered after the pruning (line 556),
\* and of the label map get_masks returns, with or without the flow filter,
\* are exactly 0..K for some K >= 0.
C1_LabelsContiguous ==
    /\ Renumbered => Contiguous(hist.renum)
    /\ Returned => Contiguous(M0)

\* C1 witness: the flow filter has removed label 1 of two instances, and
\* the other instance is returned.
C1_Witness ==
    /\ Returned /\ Filtered
    /\ Range(hist.renum) = {0, 1, 2} /\ Range(hist.filtered) = {0, 2}
    /\ Range(M0) = {0, 1}

\* C2: no instance of the returned label map occupies more than 35% of the
\* pixels of the grid.
C2_SizeBound ==
    Returned =>
        \A k \in Range(M0) \ {0} :
            PixelCount(M0, k) * 100 <= BigPercent * NPixels(shape0)

\* b is a renumbering of a that keeps the background and the instances
KeepsInstances(a, b) ==
    /\ \A x \in DOMAIN a : (b[x] = 0) <=> (a[x] = 0)
    /\ \A x, y \in DOMAIN a : (b[x] = b[y]) <=> (a[x] = a[y])

\* C3: each renumbering (line 555 after the pruning, line 563 after the flow
\* filter) maps background to 0, no instance to 0, and two pixels to one
\* label exactly if they had one label before.
C3_RenumberKeepsBackground ==
    /\ Renumbered => KeepsInstances(hist.pruned, hist.renum)
    /\ (Returned /\ Filtered) => KeepsInstances(hist.filtered, M0)

\* C5: when get_masks has returned, the caller's array p holds the values
\* it held at the call.
C5_PositionsReadOnly == Returned => p = pIn

\* C10: the seeds that are grown and rasterized are in descending order of
\* their histogram count.
C10_SeedsDescending ==
    pc \in {"grow", "rasterize", "lookup", "prune", "renumber", "filter", "renumber2", "done"} =>
        \A k \in 1..(Len(seeds) - 1) : h[seeds[k]] >= h[seeds[k + 1]]

\* C11: in the region-growth loop, for every rpad >= 0, no coordinate outside
\* the padded histogram is used as an index (no IndexError, no wrap-around):
\* after every round each bin of each footprint has every coordinate i in
\* 0..shape[i]-1 and a histogram count above 2.
C11_FootprintInBounds ==
    /\ pc # "IndexError"
    /\ pc \in {"grow", "rasterize"} =>
          \A k \in 1..Len(pix) : \A c \in pix[k] :
              Iin(c, HShape(shape0, rpad)) /\ h[c] > GrowCount

(***************************************************************************)
(* follow_flows (lines 344-382), steps2D (lines 305-342) and steps3D       *)
(* (lines 264-303).                                                        *)
(***************************************************************************)
AdvShapes == {<<AdvLy, AdvLx>>, <<AdvLz3, AdvLy3, AdvLx3>>}

\* The flow fields: the pixels from position m on (or up to m) in C-order
\* carry the vector v, with alternating sign from pixel to pixel if alt
FlowVectors(dims) ==
    LET V == {-MaxFlow, -1, 0, 1, MaxFlow}
    IN  IF dims = 2 THEN V \X V ELSE V \X V \X V

Parity(x) == IF Len(x) = 2 THEN (x[1] + x[2]) % 2 ELSE (x[1] + x[2] + x[3]) % 2

FlowFields(s) ==
    {[x \in Indices(s) |->
        IF (Flat(s, x) >= m) = up
        THEN Tup([i \in 1..Len(s) |-> IF alt /\ Parity(x) = 1 THEN -v[i] ELSE v[i]])
        ELSE Tup([i \in 1..Len(s) |-> 0])] :
        m \in 0..Cardinality(Indices(s)), up \in BOOLEAN, alt \in BOOLEAN,
        v \in FlowVectors(Len(s))}



\* line 373: np.abs(dP[0])>1e-3 ; line 380: (np.abs(dP[0])>0) | (np.abs(dP[1])>0)
Active(dp, x) ==
    IF Len(x) = 3 THEN Abs(dp[x][1]) * 1000 > unit
    ELSE Abs(dp[x][1]) > 0 \/ Abs(dp[x][2]) > 0

\* lines 373, 380: np.array(np.nonzero(...)).T, the active pixels in C-order
Inds(dp, s) == InFlatOrder(s, {x \in Indices(s) : Active(dp, x)})

Min2(a, b) == IF a < b THEN a ELSE b
Max2(a, b) == IF a > b THEN a ELSE b

\* a clamp to 0..n, one past the last coordinate
ClampToExtent(v, n) == Min2(n * unit, Max2(0, v))

\* lines 300-302, 340-341: min(shape[i]-1, max(0, v))
Clamp(v, n) == Min2((n - 1) * unit, Max2(0, v))

TruncT(q) == Tup([i \in 1..Len(q) |-> Trunc(q[i])])

\* lines 299-302, 339-341: the position of one particle after one update;
\* every axis reads the flow at the truncated position before the update
Unclamped(q, dp) == Tup([i \in 1..Len(q) |-> q[i] - dp[TruncT(q)][i]])
StepParticle(q, dp, s) == Tup([i \in 1..Len(q) |-> Clamp(Unclamped(q, dp)[i], s[i])])

InitAdvect ==
    /\ pc = "follow_flows"
    /\ unit = PosScale
    /\ fshape \in AdvShapes
    /\ dP \in FlowFields(fshape)
    /\ niter \in 0..MaxIter
    /\ p = Unused /\ inds = <<>> /\ tt = 0 /\ jj = 0 /\ moved = Unused
    /\ IdleM /\ IdleL /\ IdleF /\ IdleE /\ IdleO /\ IdleW

\* lines 366-381, up to the call of steps2D or steps3D
FF_Start ==
    /\ pc = "follow_flows"
    /\ p' = [x \in Indices(fshape) |-> Meshgrid(x)]
    /\ inds' = Inds(dP, fshape)
    /\ tt' = 0 /\ jj' = 0
    /\ pc' = "steps"
    /\ UNCHANGED <<fshape, dP, niter, moved, notA>>

\* lines 295-302, 336-341: the update of the particle inds[j] in iteration t
Steps_Particle ==
    /\ pc = "steps"
    /\ tt < niter /\ jj < Len(inds)
    /\ LET x == inds[jj + 1]
       IN  /\ p' = [p EXCEPT ![x] = StepParticle(p[x], dP, fshape)]
           /\ moved' = [x |-> x, raw |-> Unclamped(p[x], dP)]
    /\ IF jj + 1 < Len(inds)
       THEN jj' = jj + 1 /\ tt' = tt
       ELSE jj' = 0 /\ tt' = tt + 1
    /\ UNCHANGED <<pc, fshape, dP, niter, inds, notA>>

\* lines 295-302, 336-341: the loop over j, the particles from the k-th on
RECURSIVE StepFrom(_, _, _, _, _)
StepFrom(pp, ix, k, dp, s) ==
    IF k > Len(ix) THEN pp
    ELSE StepFrom([pp EXCEPT ![ix[k]] = StepParticle(pp[ix[k]], dp, s)], ix, k + 1, dp, s)

\* lines 294-302, 335-341: one iteration t as a whole
Steps_Iteration ==
    /\ pc = "steps"
    /\ tt < niter /\ jj = 0 /\ Len(inds) > 0
    /\ p' = StepFrom(p, inds, 1, dP, fshape)
    /\ tt' = tt + 1
    /\ UNCHANGED <<pc, fshape, dP, niter, inds, jj, moved, notA>>

\* lines 303, 342, 382: the loops are over, p is returned
Steps_Return ==
    /\ pc = "steps"
    /\ tt >= niter \/ Len(inds) = 0
    /\ pc' = "advected"
    /\ UNCHANGED <<p, avars, notA>>

NextAdvect == FF_Start \/ Steps_Particle \/ Steps_Return

SpecAdvect == InitAdvect /\ [][NextAdvect]_vars

InRange(q, s) == \A i \in 1..Len(s) : 0 <= q[i] /\ q[i] <= (s[i] - 1) * unit

\* C4: during the advection and after it, every coordinate of every particle
\* lies in [0, extent-1], and the truncated position is an index of the
\* flow field.
C4_PositionsInGrid ==
    pc \in {"steps", "advected"} =>
        \A x \in DOMAIN p : InRange(p[x], fshape) /\ TruncT(p[x]) \in DOMAIN dP

\* C4 witness: a particle update that left the grid before the clamp, in the
\* second iteration or a later one.
C4_Witness ==
    /\ pc = "steps" /\ tt >= 1 /\ jj >= 1 /\ moved # Unused
    /\ ~InRange(moved.raw, fshape)
    /\ InRange(p[moved.x], fshape)

(***************************************************************************)
(* steps2D and steps3D, one iteration under any order of the particles:    *)
(* the update of a particle is split into the read of its indices (lines   *)
(* 299, 339) and the update of each axis (lines 300-302, 340-341), and the *)
(* steps of different particles interleave freely within an iteration.     *)
(***************************************************************************)

\* the flow vectors of the interleaved runs: one large component, the rest small
OrderVectors(d) ==
    {Tup([i \in 1..d |-> IF i = a THEN -MaxFlow ELSE b]) : a \in 1..d, b \in {-1, 1}}

\* the flow fields of the interleaved runs: the first k pixels in C-order
\* carry a flow, the others none
OrderFields(s) ==
    LET all == InFlatOrder(s, Indices(s))
        zero == Tup([i \in 1..Len(s) |-> 0])
    IN  UNION {{[x \in Indices(s) |->
                    IF \E j \in 1..k : all[j] = x
                    THEN w[CHOOSE j \in 1..k : all[j] = x] ELSE zero] :
                w \in [1..k -> OrderVectors(Len(s))]} : k \in 0..MaxActive}

\* an update of axis i that reads the flow at the current position
UpdateAxisReread(q, dp, s, at, i) ==
    [q EXCEPT ![i] = Clamp(q[i] - dp[TruncT(q)][i], s[i])]

\* lines 300-302, 340-341: the update of axis i of one particle; the flow is
\* read at the indices p0, p1(, p2) of lines 299, 339
UpdateAxis(q, dp, s, at, i) ==
    [q EXCEPT ![i] = Clamp(q[i] - dp[at][i], s[i])]

\* lines 294, 334: the loop over t, n iterations in the order of the code
RECURSIVE Iterations(_, _, _, _, _)
Iterations(pp, ix, n, dp, s) ==
    IF n = 0 \/ Len(ix) = 0 THEN pp
    ELSE Iterations(StepFrom(pp, ix, 1, dp, s), ix, n - 1, dp, s)

InitOrder ==
    /\ pc = "follow_flows"
    /\ unit = PosScale
    /\ fshape \in AdvShapes
    /\ dP \in OrderFields(fshape)
    /\ niter \in 0..MaxIter
    /\ p = Unused /\ inds = <<>> /\ tt = 0 /\ jj = 0 /\ moved = Unused
    /\ IdleM /\ IdleL /\ IdleF /\ IdleE /\ IdleO /\ IdleW

\* lines 294, 334: iteration t starts, the previous one being complete
Steps_Begin ==
    /\ pc = "steps"
    /\ tt < niter /\ Len(inds) > 0
    /\ pStart' = p
    /\ phase' = [j \in 1..Len(inds) |-> 0]
    /\ lookup' = [j \in 1..Len(inds) |-> Unused]
    /\ pc' = "iteration"
    /\ UNCHANGED <<p, avars, notO>>

\* lines 299, 339: a particle reads p0, p1(, p2), its own truncated position
Steps_Lookup ==
    /\ pc = "iteration"
    /\ \E j \in 1..Len(inds) :
          /\ phase[j] = 0
          /\ lookup' = [lookup EXCEPT ![j] = TruncT(p[inds[j]])]
          /\ phase' = [phase EXCEPT ![j] = 1]
    /\ UNCHANGED <<pc, p, pStart, avars, notO>>

\* lines 300-302, 340-341: a particle updates its next axis
Steps_Update ==
    /\ pc = "iteration"
    /\ \E j \in 1..Len(inds) :
          /\ phase[j] \in 1..Len(fshape)
          /\ p' = [p EXCEPT ![inds[j]] =
                       UpdateAxis(p[inds[j]], dP, fshape, lookup[j], phase[j])]
          /\ phase' = [phase EXCEPT ![j] = phase[j] + 1]
    /\ UNCHANGED <<pc, pStart, lookup, avars, notO>>

\* lines 295, 336: every particle has been updated, iteration t is complete
Steps_End ==
    /\ pc = "iteration"
    /\ \A j \in 1..Len(inds) : phase[j] = Len(fshape) + 1
    /\ tt' = tt + 1
    /\ pc' = "steps"
    /\ UNCHANGED <<p, fshape, dP, niter, inds, jj, moved, ovars, notO>>

NextOrder == FF_Start \/ Steps_Begin \/ Steps_Lookup \/ Steps_Update \/ Steps_End \/ Steps_Return

SpecOrder == InitOrder /\ [][NextOrder]_vars

\* the position a particle at q reaches from q and the flow field alone, every
\* axis reading the flow at the truncated q
OwnUpdate(q) ==
    Tup([i \in 1..Len(q) |-> Clamp(q[i] - dP[TruncT(q)][i], fshape[i])])

\* C12: within an iteration the new position of a particle depends only on the
\* flow field and its own position at the start of its update, every axis
\* reading the flow at the position before any axis is updated; so under any
\* order or interleaving of the particles a complete iteration gives the
\* positions the loop of the code gives, and the returned positions are those
\* of niter iterations in the order of the code.
C12_OrderIndependent ==
    /\ pc = "iteration" =>
          /\ \A j \in 1..Len(inds) :
                LET x == inds[j]
                IN  /\ phase[j] >= 1 => lookup[j] = TruncT(pStart[x])
                    /\ \A i \in 1..Len(fshape) :
                          p[x][i] = IF i < phase[j] THEN OwnUpdate(pStart[x])[i]
                                    ELSE pStart[x][i]
          /\ \A x \in DOMAIN p :
                (\A j \in 1..Len(inds) : inds[j] # x) => p[x] = pStart[x]
    /\ (pc = "steps" /\ tt >= 1) => p = StepFrom(pStart, inds, 1, dP, fshape)
    /\ (pc = "advected" /\ p # Unused) =>
          p = Iterations([x \in Indices(fshape) |-> Meshgrid(x)], inds, niter, dP, fshape)

\* C12 witness: in the second iteration or a later one, the second particle is
\* updated and has moved while the first is between two of its axes, in
\* another cell than the one it read its indices in, where the flow differs.
C12_Witness ==
    /\ pc = "iteration" /\ tt >= 1 /\ Len(inds) >= 2
    /\ phase[2] = Len(fshape) + 1 /\ p[inds[2]] # pStart[inds[2]]
    /\ phase[1] \in 2..Len(fshape)
    /\ TruncT(p[inds[1]]) # lookup[1]
    /\ dP[TruncT(p[inds[1]])] # dP[lookup[1]]

(***************************************************************************)
(* labels_to_flows (lines 64-99) and labels_to_flows2 (lines 183-219).     *)
(* The arrays of a batch have the shape (1, 1) or (C, 1, 1): an array is   *)
(* the record of its ndim and of a, the pixel value of each of its slices  *)
(* along axis 0.                                                           *)
(***************************************************************************)
Array(nd, C, base) == [ndim |-> nd, a |-> [c \in 1..C |-> (base + c) % (MaxVal + 1)]]

Arrays(nd) ==
    IF nd = 2 THEN {Array(2, 1, base) : base \in 0..MaxVal}
    ELSE {Array(3, C, base) : C \in 1..MaxChan, base \in 0..MaxVal}

\* batches of arrays of one ndim
Batches ==
    UNION {[1..n -> Arrays(nd)] : n \in 1..MaxImg, nd \in {2, 3}}

\* astype(np.float32) of an integer: exact up to 2^24, then rounded to the
\* nearest multiple of 2 (of 4 from 2^25 on), ties to the even significand
ToFloat32(v) ==
    LET a == Abs(v)
        ulp == IF a <= 16777216 THEN 1 ELSE IF a <= 33554432 THEN 2 ELSE 4
        q == a \div ulp
        r == a % ulp
        up == 2 * r > ulp \/ (2 * r = ulp /\ q % 2 = 1)
        m == (IF up THEN q + 1 ELSE q) * ulp
    IN  IF v < 0 THEN -m ELSE m

AsFloat32(a) == [c \in DOMAIN a |-> ToFloat32(a[c])]

\* masks_to_flows on a mask of one pixel (lines 141-180): the instance, if
\* any, has no neighbour inside the mask, dy = dx = 0 (lines 173-174), and
\* the normalisation of line 178 leaves 0
FlowOfPixel == <<0, 0>>

\* lines 215-218 and 95-98: the arrays taken as precomputed flows
Precomputed(l) ==
    IF Len(l[1].a) > 3
    THEN [n \in DOMAIN l |-> AsFloat32(Tail(l[n].a))]
    ELSE [n \in DOMAIN l |-> AsFloat32(l[n].a)]

\* lines 82-99
LabelsToFlows(l) ==
    LET \* line 84: labels[n][np.newaxis,:,:]
        lab == IF l[1].ndim < 3
               THEN [n \in DOMAIN l |-> [ndim |-> l[n].ndim + 1, a |-> <<l[n].a[1]>>]]
               ELSE l
    IN  IF Len(lab[1].a) = 1 \/ lab[1].ndim < 3
        THEN \* lines 89-92: (labels[n][[0]] > 0.5) and masks_to_flows(labels[n][0])[0]
             [raised |-> "None",
              flows |-> [n \in DOMAIN lab |->
                           AsFloat32(<<IF 2 * lab[n].a[1] > 1 THEN 1 ELSE 0>> \o FlowOfPixel)]]
        ELSE [raised |-> "None", flows |-> Precomputed(lab)]

\* lines 202-219. diam is assigned at line 209 only: the return at line 219
\* reads an unbound local after the branch of line 213
LabelsToFlows2(l) ==
    IF Len(l[1].a) = 1 \/ l[1].ndim < 3
    THEN IF \E n \in DOMAIN l : l[n].ndim > 2
         THEN \* line 229, masks_to_flows2 on an array of 3 dimensions
              [raised |-> "ValueError", flows |-> <<>>]
         ELSE \* lines 209-212: masks_to_flows2 skips the one-pixel instance
              [raised |-> "None",
               flows |-> [n \in DOMAIN l |->
                            AsFloat32(<<IF l[n].a[1] > 0 THEN 1 ELSE 0>> \o FlowOfPixel)]]
    ELSE [raised |-> "UnboundLocalError", flows |-> <<>>]

InitLabels ==
    /\ pc = "builders"
    /\ unit = PosScale
    /\ labels \in Batches
    /\ built = Unused
    /\ p = Unused /\ IdleM /\ IdleA /\ IdleF /\ IdleE /\ IdleO /\ IdleW

Call_labels_to_flows ==
    /\ pc = "builders"
    /\ built' = LabelsToFlows(labels)
    /\ pc' = "labels_to_flows"
    /\ UNCHANGED <<labels, notL>>

Call_labels_to_flows2 ==
    /\ pc = "builders"
    /\ built' = LabelsToFlows2(labels)
    /\ pc' = "labels_to_flows2"
    /\ UNCHANGED <<labels, notL>>

NextLabels == Call_labels_to_flows \/ Call_labels_to_flows2

SpecLabels == InitLabels /\ [][NextLabels]_vars

MultiChannel == labels[1].ndim >= 3 /\ Len(labels[1].a) >= 2

\* C6: after either builder was called on a batch whose first array has
\* more than 3 channels, the call has not raised and has returned every
\* array without its first channel; with 2 or 3 channels it has not raised
\* and has returned every array as it is.
C6_PrecomputedPassThrough ==
    (pc \in {"labels_to_flows", "labels_to_flows2"} /\ MultiChannel) =>
        /\ built.raised = "None"
        /\ \A n \in DOMAIN labels :
              built.flows[n] = IF Len(labels[1].a) > 3 THEN Tail(labels[n].a)
                               ELSE labels[n].a

(***************************************************************************)
(* fill_holes (lines 568-602).                                             *)
(***************************************************************************)
DefaultMinSize == 15    \* min_size=15

FillShape == <<FillLy, FillLx>>

\* scipy.ndimage.find_objects: for every label 1..max the bounding box of its
\* pixels, or None if the label has no pixel
FindObjects(m) ==
    [l \in 1..SetMax(Range(m) \cup {0}) |->
        LET px == {x \in DOMAIN m : m[x] = l}
        IN  IF px = {} THEN [none |-> TRUE]
            ELSE [none |-> FALSE,
                  lo |-> <<SetMin({x[1] : x \in px}), SetMin({x[2] : x \in px})>>,
                  hi |-> <<SetMax({x[1] : x \in px}), SetMax({x[2] : x \in px})>>]]

\* neighbours under generate_binary_structure(2, 1)
Adjacent(x, y) == Abs(x[1] - y[1]) + Abs(x[2] - y[2]) = 1

\* the pixels of allowed that a path of neighbours inside allowed joins to S
RECURSIVE Flood(_, _)
Flood(S, allowed) ==
    LET next == S \cup {y \in allowed : \E x \in S : Adjacent(x, y)}
    IN  IF next = S THEN S ELSE Flood(next, allowed)

\* binary_fill_holes of the set msk inside the box: the box without the
\* pixels outside msk that are joined to the border of the box
BinaryFillHoles(msk, box) ==
    LET outside == box \ msk
        edge == {x \in outside : \E i \in 1..2 :
                    x[i] = SetMin({y[i] : y \in box}) \/ x[i] = SetMax({y[i] : y \in box})}
    IN  box \ Flood(edge, outside)

\* remove_small_objects(msk, min_size, connectivity=1): msk without its
\* connected components of fewer than min_size pixels
RemoveSmallObjects(msk, size) ==
    {x \in msk : Cardinality(Flood({x}, msk)) >= size}

\* lines 596-600, for the label l with the bounding box s
FillOne(m, s, l, size) ==
    LET box == Box(s.lo, s.hi)
        msk == BinaryFillHoles({x \in box : m[x] = l}, box)
        sm == msk \ RemoveSmallObjects(msk, size)
    IN  [x \in DOMAIN m |-> IF x \in sm THEN 0 ELSE IF x \in msk THEN l ELSE m[x]]

InitFill ==
    /\ pc = "fill_holes"
    /\ unit = PosScale
    /\ masks \in [Indices(FillShape) -> 0..FillLabels]
    /\ masksIn = masks
    /\ min_size \in {1, MidMinSize, DefaultMinSize}
    /\ slices = <<>> /\ fi = 0
    /\ p = Unused /\ IdleM /\ IdleA /\ IdleL /\ IdleE /\ IdleO /\ IdleW

\* lines 593-594
FH_FindObjects ==
    /\ pc = "fill_holes"
    /\ slices' = FindObjects(masks)
    /\ fi' = 0
    /\ pc' = "loop"
    /\ UNCHANGED <<masks, masksIn, min_size, notF>>

\* lines 595-601, one iteration; unpacking None into sr, sc raises TypeError
FH_Iterate ==
    /\ pc = "loop"
    /\ fi < Len(slices)
    /\ IF slices[fi + 1].none
       THEN pc' = "TypeError" /\ UNCHANGED <<masks, fi>>
       ELSE /\ masks' = FillOne(masks, slices[fi + 1], fi + 1, min_size)
            /\ fi' = fi + 1
            /\ pc' = pc
    /\ UNCHANGED <<masksIn, min_size, slices, notF>>

\* line 602
FH_Return ==
    /\ pc = "loop"
    /\ fi = Len(slices)
    /\ pc' = "filled"
    /\ UNCHANGED <<fvars, notF>>

NextFill == FH_FindObjects \/ FH_Iterate \/ FH_Return

SpecFill == InitFill /\ [][NextFill]_vars

\* C7: when fill_holes has returned, every pixel that carried a label j > 0
\* at the call carries j or 0, never the label of another instance.
C7_NoRelabel ==
    pc = "filled" =>
        \A x \in DOMAIN masks : masksIn[x] # 0 => masks[x] \in {masksIn[x], 0}

(***************************************************************************)
(* masks_to_flows (lines 101-180) and _extend_centers (lines 15-62).       *)
(* Floating-point values are fixed-point numbers: T and its gradient in    *)
(* units of 1/FlowScale, normalised flows in units of 1/NormScale, each    *)
(* operation rounded toward zero.  The constant 1e-20 of line 178 is below *)
(* the resolution: it decides the result for a zero vector only.  The      *)
(* distance map mu_c (lines 143, 147-151, 166) depends on utils.diameters  *)
(* and takes no part in mu; it is left out.                                *)
(***************************************************************************)
DivT(a, b) == IF a >= 0 THEN a \div b ELSE -((-a) \div b)

\* the largest r with r * r <= s, for lo * lo <= s < (hi + 1) * (hi + 1)
RECURSIVE Bisect(_, _, _)
Bisect(lo, hi, s) ==
    IF lo = hi THEN lo
    ELSE LET mid == (lo + hi + 1) \div 2
         IN  IF mid * mid <= s THEN Bisect(mid, hi, s) ELSE Bisect(lo, mid - 1, s)

\* the root of a sum of squares below 2^31
Sqrt(s) == Bisect(0, 46340, s)

\* 2 * (pw/k + pw*z2/(k+2) + ...), the series of 2 * atanh
RECURSIVE AtanhSeries(_, _, _)
AtanhSeries(pw, z2, k) ==
    IF pw = 0 THEN 0
    ELSE (2 * pw) \div k + AtanhSeries((pw * z2) \div FlowScale, z2, k + 2)

\* np.log(1. + v) for v >= 0, as 2 * atanh(v / (2 + v))
Log1p(v) ==
    LET z == (v * FlowScale) \div (2 * FlowScale + v)
    IN  AtanhSeries(z, (z * z) \div FlowScale, 1)

\* v / (1e-20 + |v|) for one pixel (line 178); a short vector is scaled up
\* first so that the root keeps three digits
RECURSIVE ScaleUp(_)
ScaleUp(v) ==
    IF \E c \in DOMAIN v : Abs(v[c]) >= NormScale THEN v
    ELSE ScaleUp([c \in DOMAIN v |-> 10 * v[c]])

SumSq(v) == IF Len(v) = 2 THEN v[1] * v[1] + v[2] * v[2]
            ELSE v[1] * v[1] + v[2] * v[2] + v[3] * v[3]

UnitVector(v) ==
    IF \A c \in DOMAIN v : v[c] = 0 THEN v
    ELSE LET w == ScaleUp(v)
             norm == Sqrt(SumSq(w))
         IN  [c \in DOMAIN v |-> DivT(w[c] * NormScale, norm)]

\* line 178
Normalize(f) == [q \in DOMAIN f |-> UnitVector(f[q])]

\* lines 156-158: the pixels of instance l in its bounding box s, in the
\* order of np.nonzero, each coordinate shifted by one
InstancePixels(m, s, l) ==
    LET sq == InFlatOrder(<<s.hi[1] + 1, s.hi[2] + 1>>, {q \in Box(s.lo, s.hi) : m[q] = l})
    IN  [n \in DOMAIN sq |-> <<sq[n][1] - s.lo[1] + 1, sq[n][2] - s.lo[2] + 1>>]

\* line 155: lx is the width of the bounding box plus one
RowLength(s) == s.hi[2] - s.lo[2] + 2
ColLength(s) == s.hi[1] - s.lo[1] + 2

\* the k-th smallest element of a sequence of integers
Kth(sq, k) ==
    SetMin({v \in Range(sq) : Cardinality({n \in DOMAIN sq : sq[n] <= v}) >= k})

\* twice np.median
Median2(sq) ==
    LET n == Len(sq)
    IN  IF n % 2 = 1 THEN 2 * Kth(sq, (n + 1) \div 2)
        ELSE Kth(sq, n \div 2) + Kth(sq, n \div 2 + 1)

\* lines 159-163: the index of the pixel closest to the median, the first
\* one among equals (np.argmin)
Imin(px) ==
    LET ymed2 == Median2([n \in DOMAIN px |-> px[n][1]])
        xmed2 == Median2([n \in DOMAIN px |-> px[n][2]])
        d[n \in DOMAIN px] ==
            (2 * px[n][2] - xmed2) * (2 * px[n][2] - xmed2)
            + (2 * px[n][1] - ymed2) * (2 * px[n][1] - ymed2)
    IN  CHOOSE n \in DOMAIN px :
            /\ \A k \in DOMAIN px : d[n] <= d[k]
            /\ \A k \in 1..(n - 1) : d[k] > d[n]

\* line 168: niter = 2 * (np.ptp(x) + np.ptp(y))
Niter(px) ==
    LET ys == {px[n][1] : n \in DOMAIN px}
        xs == {px[n][2] : n \in DOMAIN px}
    IN  2 * ((SetMax(xs) - SetMin(xs)) + (SetMax(ys) - SetMin(ys)))

\* the index y*Lx + x into T
At(q, lx) == q[1] * lx + q[2]

\* lines 57-61: one iteration of _extend_centers
ExtendCenters(TT, px, c, lx) ==
    LET T1 == [TT EXCEPT ![At(c, lx)] = @ + FlowScale]
        inside == {At(px[n], lx) : n \in DOMAIN px}
    IN  [k \in DOMAIN TT |->
            IF k \in inside
            THEN (T1[k] + T1[k - lx] + T1[k + lx] + T1[k - 1] + T1[k + 1]
                  + T1[k - lx - 1] + T1[k - lx + 1]
                  + T1[k + lx - 1] + T1[k + lx + 1]) \div 9
            ELSE T1[k]]

\* lines 171-174 with an assignment to every pixel of the bounding box
GradientBox(TT, px, s, field) ==
    LET lx == RowLength(s)
        logged == {At(px[n], lx) + lx + 1 : n \in DOMAIN px}
        T2 == [k \in DOMAIN TT |-> IF k \in logged THEN Log1p(TT[k]) ELSE TT[k]]
        dy(q) == T2[At(q, lx) + lx] - T2[At(q, lx) - lx]
        dx(q) == T2[At(q, lx) + 1] - T2[At(q, lx) - 1]
    IN  [q \in DOMAIN field |->
            IF q \in Box(s.lo, s.hi)
            THEN <<dy(<<q[1] - s.lo[1] + 1, q[2] - s.lo[2] + 1>>),
                   dx(<<q[1] - s.lo[1] + 1, q[2] - s.lo[2] + 1>>)>>
            ELSE field[q]]

\* lines 171-175: the logarithm at the indices (y+1)*lx + x+1, then dy and
\* dx of the pixels of the instance, written into mu
Gradient(TT, px, s, field) ==
    LET lx == RowLength(s)
        logged == {At(px[n], lx) + lx + 1 : n \in DOMAIN px}
        T2 == [k \in DOMAIN TT |-> IF k \in logged THEN Log1p(TT[k]) ELSE TT[k]]
        dy(q) == T2[At(q, lx) + lx] - T2[At(q, lx) - lx]
        dx(q) == T2[At(q, lx) + 1] - T2[At(q, lx) - 1]
    IN  [q \in DOMAIN field |->
            IF \E n \in DOMAIN px : px[n] = <<q[1] - s.lo[1] + 1, q[2] - s.lo[2] + 1>>
            THEN <<dy(<<q[1] - s.lo[1] + 1, q[2] - s.lo[2] + 1>>),
                   dx(<<q[1] - s.lo[1] + 1, q[2] - s.lo[2] + 1>>)>>
            ELSE field[q]]

\* the shape of masks
ShapeOf(m) ==
    LET q == CHOOSE t \in DOMAIN m : \A u \in DOMAIN m : \A c \in DOMAIN t : u[c] <= t[c]
    IN  [c \in DOMAIN q |-> q[c] + 1]

\* an index of the 3D array without its coordinate on axis a
Drop(q, a) ==
    IF a = 1 THEN <<q[2], q[3]>> ELSE IF a = 2 THEN <<q[1], q[3]>> ELSE <<q[1], q[2]>>

\* masks[z], masks[:,y] and masks[:,:,x] (lines 131, 134, 137)
Slice(m, a, k) ==
    LET s == ShapeOf(m)
    IN  [r \in Indices(Drop(s, a)) |->
            m[IF a = 1 THEN <<k, r[1], r[2]>>
              ELSE IF a = 2 THEN <<r[1], k, r[2]>> ELSE <<r[1], r[2], k>>]]

\* mu[[1,2], z] += mu0, mu[[0,2], :, y] += mu0, mu[[0,1], :, :, x] += mu0
\* (lines 132, 135, 138)
Accumulate(field, a, k, mu0) ==
    [q \in DOMAIN field |->
        IF q[a] # k THEN field[q]
        ELSE LET v == mu0[Drop(q, a)]
             IN  IF a = 1 THEN <<field[q][1], field[q][2] + v[1], field[q][3] + v[2]>>
                 ELSE IF a = 2 THEN <<field[q][1] + v[1], field[q][2], field[q][3] + v[2]>>
                 ELSE <<field[q][1] + v[1], field[q][2] + v[2], field[q][3]>>]

EncShapes == {<<EncLy, EncLx>>, <<EncLz3, EncLy3, EncLx3>>}

InitEncode ==
    /\ pc = "masks_to_flows"
    /\ unit = NormScale
    /\ \E s \in EncShapes :
          emasks \in [Indices(s) -> 0..(IF Len(s) = 2 THEN EncLabels ELSE EncLabels3)]
    /\ eaxis = 0 /\ sl = 0 /\ cur = Unused /\ objs = <<>> /\ ei = 0
    /\ T = <<>> /\ et = 0 /\ mu2 = Unused /\ mu = Unused /\ grad = Unused
    /\ p = Unused /\ IdleM /\ IdleA /\ IdleL /\ IdleF /\ IdleO /\ IdleW

\* lines 141-146 of a 2D call on the label map m
Enter2D(m) ==
    /\ cur' = m
    /\ objs' = FindObjects(m)
    /\ ei' = 0
    /\ mu2' = [q \in DOMAIN m |-> <<0, 0>>]
    /\ T' = <<>> /\ et' = 0
    /\ pc' = "instances"

\* lines 127-129: a label map of three dimensions
MF_Call3D ==
    /\ pc = "masks_to_flows"
    /\ Len(ShapeOf(emasks)) > 2
    /\ mu' = [q \in DOMAIN emasks |-> <<0, 0, 0>>]
    /\ eaxis' = 1 /\ sl' = 0
    /\ pc' = "slices"
    /\ UNCHANGED <<emasks, cur, objs, ei, T, et, mu2, grad, notE>>

\* line 127 with a label map of two dimensions
MF_Call2D ==
    /\ pc = "masks_to_flows"
    /\ Len(ShapeOf(emasks)) = 2
    /\ Enter2D(emasks)
    /\ UNCHANGED <<emasks, eaxis, sl, mu, grad, notE>>

\* lines 131, 134, 137: the call on the next slice
MF_Slice ==
    /\ pc = "slices"
    /\ sl < ShapeOf(emasks)[eaxis]
    /\ Enter2D(Slice(emasks, eaxis, sl))
    /\ UNCHANGED <<emasks, eaxis, sl, mu, grad, notE>>

\* the end of a slice loop; after the loop over x, the return of line 139
MF_NextAxis ==
    /\ pc = "slices"
    /\ sl = ShapeOf(emasks)[eaxis]
    /\ IF eaxis < 3
       THEN eaxis' = eaxis + 1 /\ sl' = 0 /\ pc' = pc /\ UNCHANGED grad
       ELSE pc' = "encoded" /\ grad' = mu /\ UNCHANGED <<eaxis, sl>>
    /\ UNCHANGED <<emasks, cur, objs, ei, T, et, mu2, mu, notE>>

\* line 153: a label without pixels
MF_Skip ==
    /\ pc = "instances"
    /\ ei < Len(objs)
    /\ objs[ei + 1].none
    /\ ei' = ei + 1
    /\ UNCHANGED <<pc, emasks, eaxis, sl, cur, objs, T, et, mu2, mu, grad, notE>>

\* lines 154-169: the pixels, the centre, niter and the empty T
MF_Center ==
    /\ pc = "instances"
    /\ ei < Len(objs)
    /\ ~objs[ei + 1].none
    /\ T' = [k \in 0..((ColLength(objs[ei + 1]) + 2) * (RowLength(objs[ei + 1]) + 2) - 1) |-> 0]
    /\ et' = 0
    /\ pc' = "_extend_centers"
    /\ UNCHANGED <<emasks, eaxis, sl, cur, objs, ei, mu2, mu, grad, notE>>

\* lines 56-61
MF_Diffuse ==
    /\ pc = "_extend_centers"
    /\ LET px == InstancePixels(cur, objs[ei + 1], ei + 1)
       IN  /\ et < Niter(px)
           /\ T' = ExtendCenters(T, px, px[Imin(px)], RowLength(objs[ei + 1]))
    /\ et' = et + 1
    /\ UNCHANGED <<pc, emasks, eaxis, sl, cur, objs, ei, mu2, mu, grad, notE>>

\* lines 171-175
MF_Gradient ==
    /\ pc = "_extend_centers"
    /\ LET px == InstancePixels(cur, objs[ei + 1], ei + 1)
       IN  /\ et = Niter(px)
           /\ mu2' = Gradient(T, px, objs[ei + 1], mu2)
    /\ ei' = ei + 1
    /\ pc' = "instances"
    /\ UNCHANGED <<emasks, eaxis, sl, cur, objs, T, et, mu, grad, notE>>

\* lines 178-180, and lines 132, 135, 138 in the caller
MF_Return2D ==
    /\ pc = "instances"
    /\ ei = Len(objs)
    /\ IF eaxis = 0
       THEN /\ mu' = Normalize(mu2)
            /\ grad' = mu2
            /\ pc' = "encoded"
            /\ UNCHANGED sl
       ELSE /\ mu' = Accumulate(mu, eaxis, sl, Normalize(mu2))
            /\ sl' = sl + 1
            /\ pc' = "slices"
            /\ UNCHANGED grad
    /\ UNCHANGED <<emasks, eaxis, cur, objs, ei, T, et, mu2, notE>>

NextEncode ==
    \/ MF_Call3D \/ MF_Call2D \/ MF_Slice \/ MF_NextAxis \/ MF_Skip
    \/ MF_Center \/ MF_Diffuse \/ MF_Gradient \/ MF_Return2D

SpecEncode == InitEncode /\ [][NextEncode]_vars

Encoded == pc = "encoded"

\* the magnitude of v is 1 within one percent
UnitLength(v) == Abs(SumSq(v) - NormScale * NormScale) * 50 <= NormScale * NormScale

NonZero(v) == \E c \in DOMAIN v : v[c] # 0

\* C8: in the field returned by masks_to_flows, 2D or 3D, every foreground
\* pixel whose vector before the final normalisation is not zero has a
\* vector of magnitude 1; in 3D that vector is the sum of the three passes.
C8_UnitNormalized ==
    Encoded =>
        \A q \in DOMAIN emasks :
            (emasks[q] # 0 /\ NonZero(grad[q])) => UnitLength(mu[q])

(***************************************************************************)
(* masks_to_flows2 (lines 222-261).  skfmm.distance is the geodesic        *)
(* distance to the centre inside the instance; on the unit grid it is      *)
(* taken along steps between 4-neighbours, in units of 1/FlowScale, and a  *)
(* pixel of the instance that no such path reaches is masked in gdt.  A    *)
(* masked entry of gdt is written -1.                                      *)
(***************************************************************************)

\* lines 239-240: the pixels of instance l in its bounding box s, in the
\* order of np.nonzero
SubmaskPixels(m, s, l) ==
    LET px == InstancePixels(m, s, l)
    IN  [n \in DOMAIN px |-> <<px[n][1] - 1, px[n][2] - 1>>]

\* line 242: len(np.unique(x)) < 2 or len(np.unique(y)) < 2
OnePixelWide(px) ==
    \/ Cardinality({px[n][2] : n \in DOMAIN px}) < 2
    \/ Cardinality({px[n][1] : n \in DOMAIN px}) < 2

RECURSIVE SumOf(_, _, _)
SumOf(px, c, n) == IF n = 0 THEN 0 ELSE px[n][c] + SumOf(px, c, n - 1)

\* lines 244-247: the index of the pixel closest to the centre of mass, the
\* first one among equals (np.argmin); distances are scaled by len(y)
CentroidIndex(px) ==
    LET n == Len(px)
        d[k \in DOMAIN px] ==
            (n * px[k][1] - SumOf(px, 1, n)) * (n * px[k][1] - SumOf(px, 1, n))
            + (n * px[k][2] - SumOf(px, 2, n)) * (n * px[k][2] - SumOf(px, 2, n))
    IN  CHOOSE k \in DOMAIN px :
            /\ \A j \in DOMAIN px : d[k] <= d[j]
            /\ \A j \in 1..(k - 1) : d[j] > d[k]

\* the number of steps between 4-neighbours inside S from the set R to q
RECURSIVE StepsTo(_, _, _)
StepsTo(q, R, S) ==
    IF q \in R THEN 0
    ELSE 1 + StepsTo(q, R \cup {y \in S : \E x \in R : Adjacent(x, y)}, S)

\* line 252: gdt over the bounding box, -1 (masked) outside the instance
Distance(S, c, box) ==
    [q \in box |->
        IF q \in Flood({c}, S) THEN FlowScale * StepsTo(q, {c}, S) ELSE -1]

\* line 254: np.gradient(gdt, 1, edge_order=1) along axis a, filled with 0
\* where an operand is masked (ma.filled of lines 256-257)
FilledGradient(gdt, dims, a) ==
    [q \in DOMAIN gdt |->
        LET lo == IF q[a] = 0 THEN q ELSE [q EXCEPT ![a] = @ - 1]
            hi == IF q[a] = dims[a] - 1 THEN q ELSE [q EXCEPT ![a] = @ + 1]
        IN  IF gdt[lo] = -1 \/ gdt[hi] = -1 THEN 0
            ELSE DivT(gdt[hi] - gdt[lo], hi[a] - lo[a])]

\* lines 256-257: scipy.ndimage.uniform_filter(g, size=3), mode 'reflect'
UniformFilter(g, dims) ==
    [q \in DOMAIN g |->
        LET v(a, b) == g[<<Reflect(q[1] + a, dims[1]), Reflect(q[2] + b, dims[2])>>]
        IN  DivT(v(-1, -1) + v(-1, 0) + v(-1, 1) + v(0, -1) + v(0, 0) + v(0, 1)
                 + v(1, -1) + v(1, 0) + v(1, 1), 9)]

\* lines 237-258: the loop body for instance l, which is more than one pixel
\* wide: mu[:, sr.start + y, sc.start + x] = (smoothed_y, smoothed_x)
GeodesicFlow(m, s, l, field) ==
    LET px == SubmaskPixels(m, s, l)
        dims == <<s.hi[1] - s.lo[1] + 1, s.hi[2] - s.lo[2] + 1>>
        S == {px[n] : n \in DOMAIN px}
        gdt == Distance(S, px[CentroidIndex(px)], Indices(dims))
        sy == UniformFilter(FilledGradient(gdt, dims, 1), dims)
        sx == UniformFilter(FilledGradient(gdt, dims, 2), dims)
    IN  [q \in DOMAIN field |->
            IF \E n \in DOMAIN px : <<s.lo[1] + px[n][1], s.lo[2] + px[n][2]>> = q
            THEN <<sy[<<q[1] - s.lo[1], q[2] - s.lo[2]>>], sx[<<q[1] - s.lo[1], q[2] - s.lo[2]>>]>>
            ELSE field[q]]

\* line 261: -1. * mu
Negate(field) == [q \in DOMAIN field |-> <<-field[q][1], -field[q][2]>>]

(***************************************************************************)
(* The instance loops of masks_to_flows (lines 152-175) and                *)
(* masks_to_flows2 (lines 235-258) under any order of the instances.  An   *)
(* encoder is run twice on the same label map: first with the instances in *)
(* the order of the code, then with the loop bodies of the instances       *)
(* started in any order and their steps interleaved, every instance with   *)
(* its own T.                                                              *)
(***************************************************************************)

\* the pixels of a rectangle: those of one parity (kinds 0 and 1), all of
\* them (kind 2), or all but the corner of the last row (kind 3)
Painted(lo, hi, kind) ==
    {q \in Box(lo, hi) : IF kind < 2 THEN (q[1] + q[2]) % 2 = kind
                         ELSE kind = 2 \/ q # <<hi[1], lo[2]>>}

\* nothing, or a painted rectangle at the first or at the last corner
Regions(s, first) ==
    {{}} \cup {IF first THEN Painted(<<0, 0>>, c, kind)
               ELSE Painted(c, <<s[1] - 1, s[2] - 1>>, kind) :
               c \in Indices(s), kind \in 0..3}

\* the label maps: instance 1 in a region at the first corner, instance 2 in
\* a region at the last corner, painted over instance 1
InstanceMaps(s) ==
    {[q \in Indices(s) |-> IF q \in B THEN 2 ELSE IF q \in A THEN 1 ELSE 0] :
        A \in Regions(s, TRUE), B \in Regions(s, FALSE)}

\* lines 156-158, 175: the entries sr.start+y-1, sc.start+x-1 of the assignment
Assigned(px, s) ==
    {<<s.lo[1] + px[n][1] - 1, s.lo[2] + px[n][2] - 1>> : n \in DOMAIN px}

\* lines 240, 258: the entries sr.start + y, sc.start + x of the assignment
Assigned2(px, s) ==
    {<<s.lo[1] + px[n][1], s.lo[2] + px[n][2]>> : n \in DOMAIN px}

\* lines 153, 242-243: an instance whose loop body writes nothing
Skipped(i) ==
    IF objs[i].none THEN TRUE
    ELSE enc = 2 /\ OnePixelWide(SubmaskPixels(cur, objs[i], i))

\* lines 152, 235: in the first run instance i starts after those before it
InTurn(i) == ref # Unused \/ \A k \in 1..(i - 1) : prog[k] = 2

\* the field before the normalisation of line 178, and the field of line 261
Field == IF enc = 1 THEN mu2 ELSE Negate(mu2)

InitInstances ==
    /\ pc = "encode"
    /\ unit = NormScale
    /\ enc \in {1, 2}
    /\ emasks \in InstanceMaps(<<EncLy, EncLx>>)
    /\ eaxis = 0 /\ sl = 0 /\ cur = Unused /\ objs = <<>> /\ ei = 0
    /\ T = <<>> /\ et = 0 /\ mu2 = Unused /\ mu = Unused /\ grad = Unused
    /\ ref = Unused /\ prog = <<>> /\ Ts = <<>> /\ ets = <<>> /\ wrote = <<>>
    /\ p = Unused /\ IdleM /\ IdleA /\ IdleL /\ IdleF /\ IdleO

\* lines 141-146, 231-234: mu is zero, no instance has been processed
EnterLoop ==
    /\ mu2' = [q \in DOMAIN emasks |-> <<0, 0>>]
    /\ prog' = [i \in DOMAIN FindObjects(emasks) |-> 0]
    /\ Ts' = [i \in DOMAIN FindObjects(emasks) |-> <<>>]
    /\ ets' = [i \in DOMAIN FindObjects(emasks) |-> 0]
    /\ wrote' = [i \in DOMAIN FindObjects(emasks) |-> {}]

\* lines 141-146, 231-234: the call
Enc_Call ==
    /\ pc = "encode"
    /\ cur' = emasks
    /\ objs' = FindObjects(emasks)
    /\ EnterLoop
    /\ pc' = "instances"
    /\ UNCHANGED <<emasks, eaxis, sl, ei, T, et, mu, grad, enc, ref, notW>>

\* lines 153, 242-243: a label without pixels, or one pixel wide in
\* masks_to_flows2
Inst_Skip ==
    /\ pc = "instances"
    /\ \E i \in DOMAIN prog :
          /\ prog[i] = 0 /\ InTurn(i)
          /\ Skipped(i)
          /\ prog' = [prog EXCEPT ![i] = 2]
    /\ UNCHANGED <<pc, evars, enc, ref, Ts, ets, wrote, notW>>

\* lines 154-169: the pixels, the centre, niter and the empty T
Inst_Center ==
    /\ pc = "instances" /\ enc = 1
    /\ \E i \in DOMAIN prog :
          /\ prog[i] = 0 /\ InTurn(i)
          /\ ~Skipped(i)
          /\ Ts' = [Ts EXCEPT ![i] =
                       [k \in 0..((ColLength(objs[i]) + 2) * (RowLength(objs[i]) + 2) - 1) |-> 0]]
          /\ ets' = [ets EXCEPT ![i] = 0]
          /\ prog' = [prog EXCEPT ![i] = 1]
    /\ UNCHANGED <<pc, evars, enc, ref, wrote, notW>>

\* lines 56-61
Inst_Diffuse ==
    /\ pc = "instances" /\ enc = 1
    /\ \E i \in DOMAIN prog :
          LET px == InstancePixels(cur, objs[i], i)
          IN  /\ prog[i] = 1
              /\ ets[i] < Niter(px)
              /\ Ts' = [Ts EXCEPT ![i] =
                           ExtendCenters(Ts[i], px, px[Imin(px)], RowLength(objs[i]))]
              /\ ets' = [ets EXCEPT ![i] = ets[i] + 1]
    /\ UNCHANGED <<pc, evars, enc, ref, prog, wrote, notW>>

\* lines 171-175
Inst_Gradient ==
    /\ pc = "instances" /\ enc = 1
    /\ \E i \in DOMAIN prog :
          LET px == InstancePixels(cur, objs[i], i)
          IN  /\ prog[i] = 1
              /\ ets[i] = Niter(px)
              /\ mu2' = Gradient(Ts[i], px, objs[i], mu2)
              /\ wrote' = [wrote EXCEPT ![i] = Assigned(px, objs[i])]
              /\ prog' = [prog EXCEPT ![i] = 2]
    /\ UNCHANGED <<pc, emasks, eaxis, sl, cur, objs, ei, T, et, mu, grad, enc, ref, Ts, ets, notW>>

\* lines 237-258
Inst_Geodesic ==
    /\ pc = "instances" /\ enc = 2
    /\ \E i \in DOMAIN prog :
          /\ prog[i] = 0 /\ InTurn(i)
          /\ ~Skipped(i)
          /\ mu2' = GeodesicFlow(cur, objs[i], i, mu2)
          /\ wrote' = [wrote EXCEPT ![i] = Assigned2(SubmaskPixels(cur, objs[i], i), objs[i])]
          /\ prog' = [prog EXCEPT ![i] = 2]
    /\ UNCHANGED <<pc, emasks, eaxis, sl, cur, objs, ei, T, et, mu, grad, enc, ref, Ts, ets, notW>>

\* the run in the order of the code is over; a second call on the same masks
Enc_Again ==
    /\ pc = "instances"
    /\ ref = Unused
    /\ \A i \in DOMAIN prog : prog[i] = 2
    /\ ref' = Field
    /\ EnterLoop
    /\ UNCHANGED <<pc, emasks, eaxis, sl, cur, objs, ei, T, et, mu, grad, enc, notW>>

\* lines 176-177, 259-261: the loop of the second call is over
Enc_Return ==
    /\ pc = "instances"
    /\ ref # Unused
    /\ \A i \in DOMAIN prog : prog[i] = 2
    /\ grad' = Field
    /\ pc' = "encoded"
    /\ UNCHANGED <<emasks, eaxis, sl, cur, objs, ei, T, et, mu2, mu, wvars, notW>>

NextInstances ==
    \/ Enc_Call \/ Inst_Skip \/ Inst_Center \/ Inst_Diffuse \/ Inst_Gradient
    \/ Inst_Geodesic \/ Enc_Again \/ Enc_Return

SpecInstances == InitInstances /\ [][NextInstances]_vars

Labelled(i) == {q \in DOMAIN cur : cur[q] = i}

\* C13: in masks_to_flows and masks_to_flows2 the entries written for
\* instance i are exactly the pixels labelled i, all inside its bounding box
\* and disjoint from the entries of every other instance; every other entry
\* stays zero, a skipped instance writes nothing, and under any order or
\* interleaving of the instances every written entry, and the field at the end
\* of the loop, equals that of the run in the order of the code.
C13_DisjointWrites ==
    pc \in {"instances", "encoded"} =>
        /\ \A i \in DOMAIN prog :
              /\ (prog[i] = 2 /\ ~Skipped(i)) =>
                    /\ wrote[i] = Labelled(i)
                    /\ wrote[i] \subseteq Box(objs[i].lo, objs[i].hi)
              /\ (prog[i] # 2 \/ Skipped(i)) => wrote[i] = {}
              /\ \A j \in DOMAIN prog : j # i => wrote[i] \cap wrote[j] = {}
        /\ \A q \in DOMAIN mu2 :
              IF \E i \in DOMAIN prog : q \in wrote[i]
              THEN ref # Unused => Field[q] = ref[q]
              ELSE mu2[q] = <<0, 0>>
        /\ pc = "encoded" => grad = ref

\* C13 witness: in the second run instance 2 is written, with a flow that is
\* not zero, before instance 1, and the two bounding boxes overlap.
C13_Witness ==
    /\ pc = "instances" /\ ref # Unused
    /\ Len(prog) = 2 /\ prog[2] = 2 /\ prog[1] # 2
    /\ ~Skipped(1)
    /\ \E q \in wrote[2] : mu2[q] # <<0, 0>>
    /\ Box(objs[1].lo, objs[1].hi) \cap Box(objs[2].lo, objs[2].hi) # {}

(***************************************************************************)
(* masks_to_flows, follow_flows and get_masks in a row, on a square        *)
(* instance: the calls mu, _ = masks_to_flows(masks),                      *)
(* p = follow_flows(mu.astype(np.float32), niter) and get_masks(p).        *)
(* steps2D (line 305) is compiled for float32 arrays only, the cast of mu  *)
(* is the caller's.                                                        *)
(***************************************************************************)
GridSize == 20      \* the label map is GridSize x GridSize
SquareSize == 6     \* the instance is a filled square of this side
DefaultNiter == 200 \* niter=200

\* the corners of the square nearest the origin
SquareAt == {<<7, 7>>, <<3, 10>>}

InSquare(x, at, margin) ==
    \A i \in 1..2 : at[i] - margin <= x[i] /\ x[i] < at[i] + SquareSize + margin

SquareMap(at) ==
    [x \in Indices(<<GridSize, GridSize>>) |-> IF InSquare(x, at, 0) THEN 1 ELSE 0]

InitRoundTrip ==
    /\ pc = "masks_to_flows"
    /\ unit = NormScale
    /\ \E at \in SquareAt : emasks = SquareMap(at)
    /\ eaxis = 0 /\ sl = 0 /\ cur = Unused /\ objs = <<>> /\ ei = 0
    /\ T = <<>> /\ et = 0 /\ mu2 = Unused /\ mu = Unused /\ grad = Unused
    /\ p = Unused /\ IdleM /\ IdleA /\ IdleL /\ IdleF /\ IdleO /\ IdleW

\* the call follow_flows(mu.astype(np.float32), niter=200), lines 366-367
RT_FollowFlows ==
    /\ pc = "encoded"
    /\ fshape' = ShapeOf(emasks)
    /\ dP' = mu
    /\ niter' = DefaultNiter
    /\ pc' = "follow_flows"
    /\ UNCHANGED <<p, unit, inds, tt, jj, moved, mvars, lvars, fvars, evars, ovars, wvars>>

\* the call get_masks(p), lines 459-463 with iscell=None
RT_GetMasks ==
    /\ pc = "advected"
    /\ shape0' = fshape
    /\ pIn' = p
    /\ iscell' = [none |-> TRUE, a |-> <<>>]
    /\ hist' = NoHist
    /\ pc' = "histogram"
    /\ UNCHANGED <<p, unit, rpad, pflows, h, hmax, seeds, pix, iter, M, M0,
                   avars, lvars, fvars, evars, ovars, wvars>>

NextRoundTrip ==
    \/ MF_Call2D \/ MF_Center \/ MF_Diffuse \/ MF_Gradient \/ MF_Return2D
    \/ RT_FollowFlows
    \/ FF_Start \/ Steps_Iteration \/ Steps_Return
    \/ RT_GetMasks
    \/ GM_Histogram \/ GM_MaximumFilter \/ GM_Seeds \/ GM_Grow \/ GM_Rasterize
    \/ GM_Lookup \/ GM_Prune \/ GM_Renumber \/ GM_Return

SpecRoundTrip == InitRoundTrip /\ [][NextRoundTrip]_vars

\* C9: the label map that the round trip returns has exactly the labels 0
\* and 1, and the instance is the square up to its boundary pixels: it
\* holds every pixel of the square that is not on its edge and no pixel
\* further than one pixel from the square.
C9_RoundTrip ==
    (pc = "done" /\ emasks # Unused) =>
        /\ Range(M0) = {0, 1}
        /\ \E at \in SquareAt :
              /\ emasks = SquareMap(at)
              /\ \A x \in DOMAIN M0 :
                    /\ InSquare(x, at, -1) => M0[x] = 1
                    /\ ~InSquare(x, at, 1) => M0[x] = 0
====
